---- MODULE Spec2Model ----
(***************************************************************************)
(* A model of split-real-books.py: the page-spec resolver (_parse_pages),  *)
(* the song validator (_parse_song_definition), the extraction engine      *)
(* (extract_songs_from_pdf), the compilation engine (compile_directories,  *)
(* compile_directory) and the batch orchestrator (main).                   *)
(*                                                                         *)
(* Python strings are sequences of one-character strings, so that strip,   *)
(* split, int(), casefold, Path.stem and the "*.pdf" glob are computed on  *)
(* the characters.  A PDF on disk is its sequence of pages plus its        *)
(* outline, or the value Corrupt when PdfReader cannot read it.            *)
(***************************************************************************)
EXTENDS Integers, Sequences, FiniteSets, TLC

VARIABLES
    phase,          \* which component runs, and where it stands
    pp_spec,        \* _parse_pages: argument page_spec
    pp_offset,      \* _parse_pages: argument offset
    pp_result,      \* _parse_pages: what the call returned or raised
    ex_source,      \* extract_songs_from_pdf: the file at input_pdf
    ex_songs,       \* extract_songs_from_pdf: argument songs
    ex_abbreviation,\* extract_songs_from_pdf: argument abbreviation
    ex_next,        \* extract_songs_from_pdf: position of the loop over songs
    ex_files,       \* the files of output_dir: filename -> document
    ex_writes,      \* the documents written, in the order of the writes
    ex_log,         \* the records logged by extract_songs_from_pdf
    fs,             \* compilation: the files on disk
    scan_reversed,  \* compilation: the order in which the file system lists files
    cd_directories, \* compile_directories: argument directories
    cd_compiled_filename, \* compile_directories: argument compiled_filename
    cd_compress,    \* compile_directories: argument compress
    cd_next,        \* compile_directories: position of the loop over directories
    cd_pdf_files,   \* compile_directory: the sorted list pdf_files
    cd_file,        \* compile_directory: position of the loop over pdf_files
    cd_writer,      \* compile_directory: the PdfWriter, its pages and outline
    cd_run,         \* how many times the program has been run
    cd_log,         \* what each compile_directory call met and wrote
    mn_args,        \* main: the parsed command line
    mn_config,      \* main: what read_config returned or raised
    mn_index,       \* main: position of the loop over the configuration entries
    mn_output_directories, \* main: the set output_directories
    mn_dirs,        \* main: the directories that exist
    mn_files,       \* main: the song files of each output directory
    mn_log,         \* main: what became of each configuration entry
    mn_compile_calls, \* main: the calls of compile_directories, with their argument
    mn_summary      \* main: whether the "Runtime" record has been logged

pp_vars == <<pp_spec, pp_offset, pp_result>>
ex_vars == <<ex_source, ex_songs, ex_abbreviation, ex_next, ex_files, ex_writes, ex_log>>
cd_vars == <<fs, scan_reversed, cd_directories, cd_compiled_filename, cd_compress, cd_next,
             cd_pdf_files, cd_file, cd_writer, cd_run, cd_log>>
mn_vars == <<mn_args, mn_config, mn_index, mn_output_directories, mn_dirs, mn_files, mn_log,
             mn_compile_calls, mn_summary>>
vars == <<phase, pp_vars, ex_vars, cd_vars, mn_vars>>

\* ------------------------------------------------------------------ bounds
PageLo == 8
PageSpan == 3
MaxItems == 2
MaxTotalPages == 2
MaxSongs == 3
MaxFilePages == 2
MaxRuns == 2
MaxEntries == 3

\* ------------------------------------------------------- Python strings
Digits == <<"0", "1", "2", "3", "4", "5", "6", "7", "8", "9">>

IsDigit(c) == \E i \in 1..10 : Digits[i] = c

DigitVal(c) == (CHOOSE i \in 1..10 : Digits[i] = c) - 1

IsSpace(c) == c = " "

\* str.strip(): drop leading and trailing whitespace
RECURSIVE LStrip(_)
LStrip(s) ==
    IF s # <<>> /\ IsSpace(Head(s)) THEN LStrip(Tail(s)) ELSE s

RECURSIVE RStrip(_)
RStrip(s) ==
    IF s # <<>> /\ IsSpace(s[Len(s)]) THEN RStrip(SubSeq(s, 1, Len(s) - 1)) ELSE s

Strip(s) == RStrip(LStrip(s))

Contains(s, c) == \E i \in 1..Len(s) : s[i] = c

FirstIndex(s, c) == CHOOSE i \in 1..Len(s) : s[i] = c /\ \A j \in 1..(i - 1) : s[j] # c

\* str.split(c, maxsplit=1) on a string that contains c: the two parts
SplitOnce(s, c) ==
    LET i == FirstIndex(s, c)
    IN  <<SubSeq(s, 1, i - 1), SubSeq(s, i + 1, Len(s))>>

RECURSIVE DigitsValue(_)
DigitsValue(s) ==
    IF s = <<>> THEN 0
    ELSE 10 * DigitsValue(SubSeq(s, 1, Len(s) - 1)) + DigitVal(s[Len(s)])

\* int(str): surrounding whitespace, an optional sign, then at least one digit;
\* anything else raises ValueError
PyInt(s) ==
    LET t == Strip(s)
        signed == t # <<>> /\ t[1] \in {"-", "+"}
        body == IF signed THEN Tail(t) ELSE t
        good == body # <<>> /\ \A i \in 1..Len(body) : IsDigit(body[i])
    IN  IF ~good THEN [ok |-> FALSE, v |-> 0]
        ELSE [ok |-> TRUE,
              v |-> IF signed /\ t[1] = "-" THEN 0 - DigitsValue(body)
                    ELSE DigitsValue(body)]

\* str(int) for a non-negative integer
RECURSIVE PyStr(_)
PyStr(n) ==
    IF n < 10 THEN <<Digits[n + 1]>>
    ELSE PyStr(n \div 10) \o <<Digits[(n % 10) + 1]>>

\* ------------------------------------------------------- page specifications
\* A page_spec value as the YAML loader hands it over.
IntSpec(n) == [kind |-> "int", n |-> n, s |-> <<>>, items |-> <<>>]
StrSpec(s) == [kind |-> "str", n |-> 0, s |-> s, items |-> <<>>]
ListSpec(items) == [kind |-> "list", n |-> 0, s |-> <<>>, items |-> items]
NoneSpec == [kind |-> "none", n |-> 0, s |-> <<>>, items |-> <<>>]

Returned(pages) == [ok |-> TRUE, pages |-> pages, err |-> "none"]
Raised(err) == [ok |-> FALSE, pages |-> <<>>, err |-> err]

\* range(start, end + 1) with offset added to each page
OffsetRange(start, end, offset) == [i \in 1..(end - start + 1) |-> start + i - 1 + offset]

ParseRangeString_NoEndCheck(spec, offset) ==
    LET parts == SplitOnce(spec, "-")
        start == PyInt(parts[1])
        end == PyInt(parts[2])
    IN  IF ~start.ok \/ ~end.ok THEN Raised("ValueError")
        ELSE Returned(OffsetRange(start.v, end.v, offset))

\* lines 63-68: the "start-end" branch of a string page_spec
ParseRangeString(spec, offset) ==
    LET parts == SplitOnce(spec, "-")
        start == PyInt(parts[1])
        end == PyInt(parts[2])
    IN  IF ~start.ok \/ ~end.ok THEN Raised("ValueError")
        ELSE IF end.v < start.v THEN Raised("ValueError")
        ELSE Returned(OffsetRange(start.v, end.v, offset))

\* lines 61-69: a string page_spec
ParseStringSpec(page_spec, offset) ==
    LET spec == Strip(page_spec)
    IN  IF Contains(spec, "-") THEN ParseRangeString(spec, offset)
        ELSE LET n == PyInt(spec)
             IN  IF n.ok THEN Returned(<<n.v + offset>>) ELSE Raised("ValueError")

\* pages.extend(...) over the elements; the first element that raises ends the call
ExtendAll(results) ==
    LET RECURSIVE Go(_, _)
        Go(i, pages) ==
            IF i > Len(results) THEN Returned(pages)
            ELSE IF ~results[i].ok THEN results[i]
            ELSE Go(i + 1, pages \o results[i].pages)
    IN  Go(1, <<>>)

\* lines 55-80
RECURSIVE _parse_pages(_, _)
_parse_pages(page_spec, offset) ==
    CASE page_spec.kind = "int" -> Returned(<<page_spec.n + offset>>)
      [] page_spec.kind = "str" -> ParseStringSpec(page_spec.s, offset)
      [] page_spec.kind = "list" ->
            ExtendAll([i \in 1..Len(page_spec.items) |->
                          _parse_pages(page_spec.items[i], offset)])
      [] OTHER -> Raised("TypeError")

\* ------------------------------------------------------- inputs of _parse_pages
Pages == PageLo..(PageLo + PageSpan)
Offsets == {-1, 0, 2}

RangeString(a, b) == PyStr(a) \o <<"-">> \o PyStr(b)

LeafSpecs ==
    {IntSpec(p) : p \in Pages}
    \cup {StrSpec(RangeString(a, b)) : a \in Pages, b \in Pages}
    \cup {StrSpec(<<" ">> \o RangeString(PageLo, b) \o <<" ">>) : b \in Pages}
    \cup {StrSpec(PyStr(p)) : p \in Pages}
    \cup {StrSpec(<<"-">> \o PyStr(PageLo)), StrSpec(PyStr(PageLo) \o <<"-">>),
          StrSpec(<<>>), NoneSpec}

SeqsUpTo(S, n) == UNION {[1..k -> S] : k \in 0..n}

InnerSpecs ==
    {ListSpec(<<>>),
     ListSpec(<<IntSpec(PageLo)>>),
     ListSpec(<<StrSpec(RangeString(PageLo, PageLo + 1)), IntSpec(PageLo)>>),
     ListSpec(<<StrSpec(RangeString(PageLo + 1, PageLo))>>),
     ListSpec(<<ListSpec(<<IntSpec(PageLo + 1), IntSpec(PageLo)>>), IntSpec(PageLo + 1)>>),
     ListSpec(<<ListSpec(<<StrSpec(RangeString(PageLo + 1, PageLo))>>), IntSpec(PageLo)>>)}

\* the elements a collection is built from
ItemSpecs ==
    {IntSpec(PageLo), IntSpec(PageLo + PageSpan)}
    \cup {StrSpec(RangeString(a, b)) : a \in {PageLo + 1, PageLo + 2}, b \in Pages}
    \cup {StrSpec(<<" ">> \o RangeString(PageLo, PageLo + 1) \o <<" ">>),
          StrSpec(PyStr(PageLo)), StrSpec(<<"-">> \o PyStr(PageLo)), NoneSpec}
    \cup InnerSpecs

PageSpecs == LeafSpecs \cup {ListSpec(items) : items \in SeqsUpTo(ItemSpecs, MaxItems)}

NoResult == Raised("pending")

IdlePages ==
    /\ pp_spec = NoneSpec
    /\ pp_offset = 0
    /\ pp_result = NoResult

IdleExtract ==
    /\ ex_source = [state |-> "missing", pages |-> <<>>]
    /\ ex_songs = <<>>
    /\ ex_abbreviation = <<>>
    /\ ex_next = 1
    /\ ex_files = <<>>
    /\ ex_writes = <<>>
    /\ ex_log = <<>>

IdleCompile ==
    /\ fs = {}
    /\ scan_reversed = FALSE
    /\ cd_directories = <<>>
    /\ cd_compiled_filename = <<>>
    /\ cd_compress = FALSE
    /\ cd_next = 1
    /\ cd_pdf_files = <<>>
    /\ cd_file = 1
    /\ cd_writer = [pages |-> <<>>, outline |-> <<>>]
    /\ cd_run = 1
    /\ cd_log = <<>>

IdleMain ==
    /\ mn_args = [compile_directory |-> <<>>, compile_from_config |-> FALSE]
    /\ mn_config = [loaded |-> FALSE, entries |-> <<>>]
    /\ mn_index = 1
    /\ mn_output_directories = {}
    /\ mn_dirs = {}
    /\ mn_files = <<>>
    /\ mn_log = <<>>
    /\ mn_compile_calls = <<>>
    /\ mn_summary = FALSE

InitPages ==
    /\ phase = "pages_call"
    /\ pp_spec \in PageSpecs
    /\ pp_offset \in Offsets
    /\ pp_result = NoResult
    /\ IdleExtract
    /\ IdleCompile
    /\ IdleMain

ParsePagesCall ==
    /\ phase = "pages_call"
    /\ pp_result' = _parse_pages(pp_spec, pp_offset)
    /\ phase' = "pages_done"
    /\ UNCHANGED <<pp_spec, pp_offset, ex_vars, cd_vars, mn_vars>>

NextPages == ParsePagesCall

SpecPages == InitPages /\ [][NextPages]_vars

\* ------------------------------------------------------- C7
\* The range a string denotes, read off its spelling "a-b" (optionally padded with
\* blanks) rather than parsed: the pairs <<a, b>> of pages it spells.
RangesSpelled(s) ==
    {ab \in Pages \X Pages :
        \/ s = RangeString(ab[1], ab[2])
        \/ s = <<" ">> \o RangeString(ab[1], ab[2]) \o <<" ">>}

RECURSIVE InClaimScope(_)
InClaimScope(spec) ==
    CASE spec.kind = "int" -> TRUE
      [] spec.kind = "str" -> RangesSpelled(spec.s) # {}
      [] spec.kind = "list" -> \A i \in 1..Len(spec.items) : InClaimScope(spec.items[i])
      [] OTHER -> FALSE

RECURSIVE HasDescendingRange(_)
HasDescendingRange(spec) ==
    CASE spec.kind = "str" -> \E ab \in RangesSpelled(spec.s) : ab[2] < ab[1]
      [] spec.kind = "list" -> \E i \in 1..Len(spec.items) : HasDescendingRange(spec.items[i])
      [] OTHER -> FALSE

RECURSIVE ConcatAll(_)
ConcatAll(seqs) == IF seqs = <<>> THEN <<>> ELSE Head(seqs) \o ConcatAll(Tail(seqs))

RECURSIVE Flattened(_, _)
Flattened(spec, offset) ==
    CASE spec.kind = "int" -> <<spec.n + offset>>
      [] spec.kind = "str" ->
            LET ab == CHOOSE x \in RangesSpelled(spec.s) : TRUE
            IN  [i \in 1..(ab[2] - ab[1] + 1) |-> ab[1] + offset + (i - 1)]
      [] spec.kind = "list" ->
            ConcatAll([i \in 1..Len(spec.items) |-> Flattened(spec.items[i], offset)])

\* C7: _parse_pages(spec, offset) is the in-order flattening of spec with offset
\* added to every page (an integer p gives [p+offset], a range "a-b" with b >= a
\* gives a+offset .. b+offset, a collection gives the concatenation of its
\* elements' results at any depth, nothing sorted or deduplicated), and a range
\* with b < a anywhere inside the spec makes the whole call raise.
C7_ParsePagesFlattens ==
    phase = "pages_done" =>
        /\ HasDescendingRange(pp_spec) => ~pp_result.ok
        /\ (InClaimScope(pp_spec) /\ ~HasDescendingRange(pp_spec)) =>
                pp_result = Returned(Flattened(pp_spec, pp_offset))

\* a nested collection holding a range and a repeated page was resolved
C7_Witness ==
    /\ phase = "pages_done"
    /\ pp_offset # 0
    /\ pp_spec.kind = "list"
    /\ InClaimScope(pp_spec)
    /\ \E i \in 1..Len(pp_spec.items) :
            pp_spec.items[i].kind = "list" /\ Len(pp_spec.items[i].items) = 2
    /\ \E i \in 1..Len(pp_spec.items) : pp_spec.items[i].kind = "str"
    /\ pp_result.ok
    /\ \E i, j \in 1..Len(pp_result.pages) : i < j /\ pp_result.pages[i] > pp_result.pages[j]
    /\ \E i, j \in 1..Len(pp_result.pages) : i < j /\ pp_result.pages[i] = pp_result.pages[j]

\* ------------------------------------------------------- extract_songs_from_pdf
\* line 19-24
SongDefinition(name, pages) == [name |-> name, pages |-> pages]

\* A source PDF: reader.pages is 0-based; the page stored at index i is named by
\* the book and that index.
SourcePage(i) == [book |-> "source", index |-> i]
ReadablePdf(n) == [state |-> "ok", pages |-> [i \in 1..n |-> SourcePage(i - 1)]]
MissingPdf == [state |-> "missing", pages |-> <<>>]
CorruptPdf == [state |-> "corrupt", pages |-> <<>>]

\* reader.pages[k] for a 0-based k: a negative k counts from the end, and a k
\* outside the list is an IndexError
ReaderPage(source, k) ==
    LET n == Len(source.pages)
    IN  IF 0 <= k /\ k < n THEN source.pages[k + 1]
        ELSE IF 0 - n <= k /\ k < 0 THEN source.pages[n + k + 1]
        ELSE [book |-> "IndexError", index |-> k]

\* len(reader.pages)
TotalPages(source) == Len(source.pages)

OutOfBounds(page, total_pages) == page < 1 \/ page > total_pages

HasInvalidPage_UpperOnly(song, total_pages) ==
    \E i \in 1..Len(song.pages) : song.pages[i] > total_pages

\* lines 119-123: invalid_page is not None
HasInvalidPage(song, total_pages) ==
    \E i \in 1..Len(song.pages) : OutOfBounds(song.pages[i], total_pages)

\* lines 119-122: next(...) yields the first page out of bounds
InvalidPage(song, total_pages) ==
    LET i == CHOOSE i \in 1..Len(song.pages) :
                 /\ OutOfBounds(song.pages[i], total_pages)
                 /\ \A j \in 1..(i - 1) : ~OutOfBounds(song.pages[j], total_pages)
    IN  song.pages[i]

RECURSIVE Dedup(_)
Dedup(s) ==
    IF s = <<>> THEN <<>>
    ELSE LET init == Dedup(SubSeq(s, 1, Len(s) - 1))
             last == s[Len(s)]
         IN  IF \E i \in 1..Len(init) : init[i] = last THEN init ELSE init \o <<last>>

WriterPages_Dedup(source, pages) ==
    LET d == Dedup(pages)
    IN  [k \in 1..Len(d) |-> ReaderPage(source, d[k] - 1)]

\* lines 133-135: the pages added to the writer, in order
WriterPages(source, pages) ==
    [k \in 1..Len(pages) |-> ReaderPage(source, pages[k] - 1)]

\* lines 137-139
OutputFilename(name, abbreviation) ==
    IF abbreviation # <<>>
    THEN name \o <<" ", "(">> \o abbreviation \o <<")", ".", "p", "d", "f">>
    ELSE name \o <<".", "p", "d", "f">>

\* A directory is the list of its files, each [name, doc], in the order they were
\* created; writing replaces the file of that name.
WriteFile(files, name, doc) ==
    LET kept == SelectSeq(files, LAMBDA f : f.name # name)
    IN  Append(kept, [name |-> name, doc |-> doc])

SongNames == {<<"A">>, <<"B">>}
PageLists == {<<1>>, <<1, 1, 2>>, <<2, 1>>, <<1, MaxTotalPages + 1>>, <<0>>}
SongDefinitions == {SongDefinition(n, ps) : n \in SongNames, ps \in PageLists}
Abbreviations == {<<>>, <<"R", "B">>}

InitExtract ==
    /\ phase = "extract_call"
    /\ ex_source \in {MissingPdf, CorruptPdf} \cup {ReadablePdf(n) : n \in 0..MaxTotalPages}
    /\ ex_songs \in SeqsUpTo(SongDefinitions, MaxSongs)
    /\ ex_abbreviation \in Abbreviations
    /\ ex_next = 1
    /\ ex_files = <<>>
    /\ ex_writes = <<>>
    /\ ex_log = <<>>
    /\ IdlePages
    /\ IdleCompile
    /\ IdleMain

\* lines 107-109: input_pdf is no file
ExtractSourceMissing ==
    /\ phase = "extract_call"
    /\ ex_source.state = "missing"
    /\ phase' = "extract_raised_FileNotFoundError"
    /\ UNCHANGED <<pp_vars, mn_vars, ex_vars, cd_vars>>

\* lines 111-115: output_dir is made, and PdfReader cannot read the source
ExtractSourceUnreadable ==
    /\ phase = "extract_call"
    /\ ex_source.state = "corrupt"
    /\ phase' = "extract_raised_PdfReadError"
    /\ UNCHANGED <<pp_vars, mn_vars, ex_vars, cd_vars>>

\* lines 111-116: output_dir is made, the source is opened and counted
ExtractOpen ==
    /\ phase = "extract_call"
    /\ ex_source.state = "ok"
    /\ phase' = "extract_loop"
    /\ UNCHANGED <<pp_vars, mn_vars, ex_vars, cd_vars>>

\* lines 118-131: a song with a page out of bounds is logged and skipped
ExtractSkipSong ==
    /\ phase = "extract_loop"
    /\ ex_next <= Len(ex_songs)
    /\ LET song == ex_songs[ex_next]
           total_pages == TotalPages(ex_source)
       IN  /\ HasInvalidPage(song, total_pages)
           /\ ex_log' = Append(ex_log,
                  [level |-> "error", song |-> ex_next, name |-> song.name,
                   page |-> InvalidPage(song, total_pages), total_pages |-> total_pages])
    /\ ex_next' = ex_next + 1
    /\ UNCHANGED <<phase, pp_vars, mn_vars, cd_vars, ex_source, ex_songs, ex_abbreviation, ex_files, ex_writes>>

\* lines 118-145: a song within bounds is written to its file
ExtractWriteSong ==
    /\ phase = "extract_loop"
    /\ ex_next <= Len(ex_songs)
    /\ LET song == ex_songs[ex_next]
           total_pages == TotalPages(ex_source)
           filename == OutputFilename(song.name, ex_abbreviation)
           doc == WriterPages(ex_source, song.pages)
       IN  /\ ~HasInvalidPage(song, total_pages)
           /\ ex_files' = WriteFile(ex_files, filename, doc)
           /\ ex_writes' = Append(ex_writes, [song |-> ex_next, name |-> filename, doc |-> doc])
           /\ ex_log' = Append(ex_log, [level |-> "info", song |-> ex_next, name |-> filename,
                                        page |-> 0, total_pages |-> total_pages])
    /\ ex_next' = ex_next + 1
    /\ UNCHANGED <<phase, pp_vars, mn_vars, cd_vars, ex_source, ex_songs, ex_abbreviation>>

\* line 118: the loop is over, the call returns
ExtractReturn ==
    /\ phase = "extract_loop"
    /\ ex_next > Len(ex_songs)
    /\ phase' = "extract_returned"
    /\ UNCHANGED <<pp_vars, mn_vars, ex_vars, cd_vars>>

NextExtract ==
    \/ ExtractSourceMissing
    \/ ExtractSourceUnreadable
    \/ ExtractOpen
    \/ ExtractSkipSong
    \/ ExtractWriteSong
    \/ ExtractReturn

SpecExtract == InitExtract /\ [][NextExtract]_vars

\* ------------------------------------------------------- C1, C2, C8
WrittenSongs == {ex_writes[w].song : w \in 1..Len(ex_writes)}
SkippedSongs == {ex_log[l].song : l \in {l \in 1..Len(ex_log) : ex_log[l].level = "error"}}

AllInRange(pages, n) == \A k \in 1..Len(pages) : 1 <= pages[k] /\ pages[k] <= n

\* C1: over a source of N pages, a song's file is written if and only if every
\* page of the song lies in [1, N]; a song with a page out of bounds is skipped
\* with an error and the songs after it are still processed.
C1_WrittenIffInBounds ==
    phase \in {"extract_loop", "extract_returned"} =>
        /\ phase = "extract_returned" => ex_next = Len(ex_songs) + 1
        /\ \A i \in 1..(ex_next - 1) :
              LET fits == AllInRange(ex_songs[i].pages, Len(ex_source.pages))
              IN  /\ (i \in WrittenSongs) <=> fits
                  /\ (i \in SkippedSongs) <=> ~fits
                  /\ fits => \E f \in 1..Len(ex_files) :
                                ex_files[f].name = OutputFilename(ex_songs[i].name, ex_abbreviation)

\* the call returned after skipping a song before and a song after a written one
C1_Witness ==
    /\ phase = "extract_returned"
    /\ \E i, j, k \in 1..Len(ex_songs) :
          /\ i < j /\ j < k
          /\ i \in SkippedSongs /\ j \in WrittenSongs /\ k \in SkippedSongs

\* C2: the document written for an in-bounds song has len(pages) pages and its
\* i-th page is the source page at 0-based index pages[i]-1: order kept, repeated
\* pages copied again.
C2_DocumentIsPagesInOrder ==
    \A w \in 1..Len(ex_writes) :
        LET pages == ex_songs[ex_writes[w].song].pages
            doc == ex_writes[w].doc
        IN  /\ Len(doc) = Len(pages)
            /\ \A i \in 1..Len(pages) :
                  /\ doc[i] = SourcePage(pages[i] - 1)
                  /\ doc[i] = ex_source.pages[pages[i]]

\* a song that repeats a page and a song that goes backwards were both written
C2_Witness ==
    /\ \E w \in 1..Len(ex_writes) : ex_songs[ex_writes[w].song].pages = <<1, 1, 2>>
    /\ \E w \in 1..Len(ex_writes) : ex_songs[ex_writes[w].song].pages = <<2, 1>>

\* C8: after a list of song definitions that are all in bounds, output_dir holds
\* as many documents written by the call as the list has definitions, and each
\* definition's document holds exactly that definition's pages.
C8_OneDocumentPerDefinition ==
    (/\ phase = "extract_returned"
     /\ \A i \in 1..Len(ex_songs) : AllInRange(ex_songs[i].pages, Len(ex_source.pages)))
    => /\ Len(ex_files) = Len(ex_songs)
       /\ \A i \in 1..Len(ex_songs) :
             \E f \in 1..Len(ex_files) :
                /\ ex_files[f].name = OutputFilename(ex_songs[i].name, ex_abbreviation)
                /\ ex_files[f].doc = [k \in 1..Len(ex_songs[i].pages) |->
                                        SourcePage(ex_songs[i].pages[k] - 1)]

\* ------------------------------------------------------- paths and file names
\* The characters of the model's file names in code-point order; a character's
\* position orders it as its code point does.
Alphabet == <<" ", "(", ")", ".", "A", "B", "C", "R", "Z", "_", "a", "b", "c", "d", "e", "f",
              "g", "h", "m", "n", "o", "p", "r", "s", "t", "u", "x", "z">>

CharCode(c) == CHOOSE i \in 1..Len(Alphabet) : Alphabet[i] = c

\* str.casefold() on these characters: upper case to lower case
CasefoldChar(c) ==
    CASE c = "A" -> "a" [] c = "B" -> "b" [] c = "C" -> "c" [] c = "R" -> "r"
      [] c = "Z" -> "z" [] OTHER -> c

Casefold(s) == [i \in 1..Len(s) |-> CasefoldChar(s[i])]

\* s < t for Python strings: by code point, a proper prefix first
RECURSIVE StrLess(_, _)
StrLess(s, t) ==
    IF t = <<>> THEN FALSE
    ELSE IF s = <<>> THEN TRUE
    ELSE IF Head(s) # Head(t) THEN CharCode(Head(s)) < CharCode(Head(t))
    ELSE StrLess(Tail(s), Tail(t))

EndsWith(s, suffix) ==
    Len(s) >= Len(suffix) /\ SubSeq(s, Len(s) - Len(suffix) + 1, Len(s)) = suffix

\* Path.stem: the name without its last suffix; a leading or trailing dot starts
\* no suffix
Stem(name) ==
    LET dots == {i \in 2..(Len(name) - 1) : name[i] = "."}
    IN  IF dots = {} THEN name
        ELSE SubSeq(name, 1, (CHOOSE i \in dots : \A j \in dots : j <= i) - 1)

\* A directory is the list of its components below the working directory;
\* Path.resolve() puts the working directory in front of it.
Cwd == <<<<"h", "o", "m", "e">>>>
Resolve(dir) == Cwd \o dir

\* Path.__lt__: the parts are compared one by one, and a proper prefix comes first
RECURSIVE PathLess(_, _)
PathLess(d, e) ==
    IF e = <<>> THEN FALSE
    ELSE IF d = <<>> THEN TRUE
    ELSE IF Head(d) # Head(e) THEN StrLess(Head(d), Head(e))
    ELSE PathLess(Tail(d), Tail(e))

\* Path(raw): the parts of the path, without the "." parts
PyPath(raw) == SelectSeq(raw, LAMBDA part : part # <<".">>)

IsPrefix(d, e) == Len(d) <= Len(e) /\ SubSeq(e, 1, Len(d)) = d

\* the directories that exist
ExistingDirs == {Resolve(<<<<"o", "u", "t">>>>), Resolve(<<<<"o", "u", "t">>, <<"s", "u", "b">>>>)}
IsDir(path) == path \in ExistingDirs

\* ------------------------------------------------------- PDF files
Pdf(pages, outline) == [state |-> "ok", pages |-> pages, outline |-> outline]
Unreadable == [state |-> "corrupt", pages |-> <<>>, outline |-> <<>>]

\* a song file of n pages: its pages are named by the file and their position
SongPdf(name, n) ==
    Pdf([i \in 1..n |-> [book |-> name, index |-> i - 1, compressed |-> FALSE]], <<>>)

\* A file on disk: its directory and name (resolved), the place the file system
\* lists it at, and its content.
File(dir, name, ino, pdf) == [dir |-> Resolve(dir), name |-> name, ino |-> ino, pdf |-> pdf]

PathOf(f) == [dir |-> f.dir, name |-> f.name]

FileAt(files, path) == CHOOSE f \in files : PathOf(f) = path

Exists(files, path) == \E f \in files : PathOf(f) = path

\* open(path, "wb") and write: an existing file keeps its place, a new one is
\* listed after the others
WriteOut(files, path, pdf) ==
    IF Exists(files, path)
    THEN (files \ {FileAt(files, path)}) \cup {[FileAt(files, path) EXCEPT !.pdf = pdf]}
    ELSE LET inos == {f.ino : f \in files}
             top == IF inos = {} THEN 0 ELSE CHOOSE i \in inos : \A j \in inos : j <= i
         IN  files \cup {[dir |-> path.dir, name |-> path.name, ino |-> top + 1, pdf |-> pdf]}

\* the files of a set, in the order the file system lists them
RECURSIVE ScanOrder(_, _)
ScanOrder(files, reversed) ==
    IF files = {} THEN <<>>
    ELSE LET first == CHOOSE f \in files :
                          \A g \in files : IF reversed THEN g.ino <= f.ino ELSE f.ino <= g.ino
         IN  <<first>> \o ScanOrder(files \ {first}, reversed)

\* directory_path.rglob("*.pdf"): every file below the directory, at any depth,
\* whose name ends in ".pdf"
Rglob(files, directory_path, reversed) ==
    ScanOrder({f \in files : IsPrefix(directory_path, f.dir)
                             /\ EndsWith(f.name, <<".", "p", "d", "f">>)}, reversed)

\* lines 353-358: the candidates other than the output file
Candidates_KeepOutput(files, directory_path, output_path, reversed) ==
    LET found == Rglob(files, directory_path, reversed)
    IN  [i \in 1..Len(found) |-> PathOf(found[i])]

Candidates(files, directory_path, output_path, reversed) ==
    LET found == Rglob(files, directory_path, reversed)
        kept == SelectSeq(found, LAMBDA f : PathOf(f) # output_path)
    IN  [i \in 1..Len(kept) |-> PathOf(kept[i])]

SortKey_NoCasefold(path) == Stem(path.name)

\* line 360: key=lambda path: path.stem.casefold()
SortKey(path) == Casefold(Stem(path.name))

\* list.sort(key=...): stable, so equal keys keep the order they were listed in
RECURSIVE SortByKey(_)
SortByKey(paths) ==
    IF paths = <<>> THEN <<>>
    ELSE LET sorted == SortByKey(SubSeq(paths, 1, Len(paths) - 1))
             last == paths[Len(paths)]
             after == {i \in 1..Len(sorted) : StrLess(SortKey(last), SortKey(sorted[i]))}
             at == IF after = {} THEN Len(sorted) + 1
                   ELSE CHOOSE i \in after : \A j \in after : i <= j
         IN  SubSeq(sorted, 1, at - 1) \o <<last>> \o SubSeq(sorted, at, Len(sorted))

\* lines 350-360: pdf_files as the merge loop receives it
PdfFiles(files, directory_path, output_path, reversed) ==
    SortByKey(Candidates(files, directory_path, output_path, reversed))

\* line 384: page.compress_content_streams()
Compressed(page) == [page EXCEPT !.compressed = TRUE]

\* lines 380-388: the pages of one file are added and an outline item is pointed
\* at the first of them
AddFile(writer, path, pdf, compress) ==
    LET first_page_index == Len(writer.pages)
        added == [i \in 1..Len(pdf.pages) |->
                     IF compress THEN Compressed(pdf.pages[i]) ELSE pdf.pages[i]]
    IN  [pages |-> writer.pages \o added,
         outline |-> Append(writer.outline,
                            [title |-> Stem(path.name), page |-> first_page_index])]

EmptyWriter == [pages |-> <<>>, outline |-> <<>>]

\* ------------------------------------------------------- inputs of compilation
CompiledName == <<"C", "o", ".", "p", "d", "f">>
Out == <<<<"o", "u", "t">>>>
Sub == <<<<"o", "u", "t">>, <<"s", "u", "b">>>>
Gone == <<<<"g", "o", "n", "e">>>>

ZebraName == <<"Z", "e", ".", "p", "d", "f">>
appleName == <<"a", "p", ".", "p", "d", "f">>
AppleName == <<"A", "p", ".", "p", "d", "f">>
bName == <<"b", ".", "p", "d", "f">>
notesName == <<"a", ".", "t", "x", "t">>

Absent == [state |-> "absent", pages |-> <<>>, outline |-> <<>>]

InitialFiles ==
    {{f \in {File(Out, ZebraName, 1, z), File(Out, appleName, 2, a), File(Out, AppleName, 3, c),
             File(Sub, bName, 4, b), File(Out, notesName, 5, SongPdf(notesName, 1))} :
         f.pdf.state # "absent"} :
        z \in {Absent, Unreadable, SongPdf(ZebraName, MaxFilePages)},
        a \in {SongPdf(appleName, 0), SongPdf(appleName, 1)},
        c \in {Absent, SongPdf(AppleName, 1)},
        b \in {Absent, Unreadable, SongPdf(bName, 1)}}

DirectoryLists == {<<Out>>, <<Sub>>, <<Out, Sub>>, <<Sub, Out>>, <<Gone, Out>>}

InitCompile ==
    /\ phase = "compile_directories"
    /\ fs \in InitialFiles
    /\ scan_reversed \in BOOLEAN
    /\ cd_directories \in DirectoryLists
    /\ cd_compiled_filename = CompiledName
    /\ cd_compress \in BOOLEAN
    /\ cd_next = 1
    /\ cd_pdf_files = <<>>
    /\ cd_file = 1
    /\ cd_writer = EmptyWriter
    /\ cd_run = 1
    /\ cd_log = <<>>
    /\ IdlePages
    /\ IdleExtract
    /\ IdleMain

\* ------------------------------------------------------- compile_directories
Directory == cd_directories[cd_next]
DirectoryPath == Resolve(Directory)
OutputPath == [dir |-> DirectoryPath, name |-> cd_compiled_filename]

Outcome(what, pdf_files, written) ==
    [run |-> cd_run, directory |-> Directory, outcome |-> what, before |-> fs,
     pdf_files |-> pdf_files, written |-> written]

\* lines 333-337: a directory that is none is skipped with a warning
CompileSkipNotDirectory ==
    /\ phase = "compile_directories"
    /\ cd_next <= Len(cd_directories)
    /\ ~IsDir(DirectoryPath)
    /\ cd_log' = Append(cd_log, Outcome("not_a_directory", <<>>, Absent))
    /\ cd_next' = cd_next + 1
    /\ UNCHANGED <<phase, pp_vars, mn_vars, ex_vars, fs, scan_reversed, cd_directories,
                   cd_compiled_filename, cd_compress, cd_pdf_files, cd_file, cd_writer, cd_run>>

\* lines 338-340, 350-364: compile_directory finds no PDF and returns
CompileNoPdfs ==
    /\ phase = "compile_directories"
    /\ cd_next <= Len(cd_directories)
    /\ IsDir(DirectoryPath)
    /\ PdfFiles(fs, DirectoryPath, OutputPath, scan_reversed) = <<>>
    /\ cd_log' = Append(cd_log, Outcome("no_pdf_files", <<>>, Absent))
    /\ cd_next' = cd_next + 1
    /\ UNCHANGED <<phase, pp_vars, mn_vars, ex_vars, fs, scan_reversed, cd_directories,
                   cd_compiled_filename, cd_compress, cd_pdf_files, cd_file, cd_writer, cd_run>>

\* lines 338-340, 350-368: compile_directory lists and sorts the files and makes
\* the writer
CompileBegin ==
    /\ phase = "compile_directories"
    /\ cd_next <= Len(cd_directories)
    /\ IsDir(DirectoryPath)
    /\ PdfFiles(fs, DirectoryPath, OutputPath, scan_reversed) # <<>>
    /\ cd_pdf_files' = PdfFiles(fs, DirectoryPath, OutputPath, scan_reversed)
    /\ cd_file' = 1
    /\ cd_writer' = EmptyWriter
    /\ phase' = "compile_directory"
    /\ UNCHANGED <<pp_vars, mn_vars, ex_vars, fs, scan_reversed, cd_directories, cd_compiled_filename,
                   cd_compress, cd_next, cd_run, cd_log>>

\* lines 370-373, 341-342: PdfReader raises on the file; the exception leaves
\* compile_directory and compile_directories logs it and goes to the next directory
CompileReadFails ==
    /\ phase = "compile_directory"
    /\ cd_file <= Len(cd_pdf_files)
    /\ FileAt(fs, cd_pdf_files[cd_file]).pdf.state = "corrupt"
    /\ cd_log' = Append(cd_log, Outcome("failed", cd_pdf_files, Absent))
    /\ cd_next' = cd_next + 1
    /\ phase' = "compile_directories"
    /\ UNCHANGED <<pp_vars, mn_vars, ex_vars, fs, scan_reversed, cd_directories, cd_compiled_filename,
                   cd_compress, cd_pdf_files, cd_file, cd_writer, cd_run>>

\* lines 370-378: a file without pages is skipped
CompileSkipEmptyFile ==
    /\ phase = "compile_directory"
    /\ cd_file <= Len(cd_pdf_files)
    /\ FileAt(fs, cd_pdf_files[cd_file]).pdf.state = "ok"
    /\ Len(FileAt(fs, cd_pdf_files[cd_file]).pdf.pages) = 0
    /\ cd_file' = cd_file + 1
    /\ UNCHANGED <<phase, pp_vars, mn_vars, ex_vars, fs, scan_reversed, cd_directories,
                   cd_compiled_filename, cd_compress, cd_next, cd_pdf_files, cd_writer, cd_run,
                   cd_log>>

\* lines 370-388: a file with pages is merged
CompileAddFile ==
    /\ phase = "compile_directory"
    /\ cd_file <= Len(cd_pdf_files)
    /\ FileAt(fs, cd_pdf_files[cd_file]).pdf.state = "ok"
    /\ Len(FileAt(fs, cd_pdf_files[cd_file]).pdf.pages) > 0
    /\ cd_writer' = AddFile(cd_writer, cd_pdf_files[cd_file],
                            FileAt(fs, cd_pdf_files[cd_file]).pdf, cd_compress)
    /\ cd_file' = cd_file + 1
    /\ UNCHANGED <<phase, pp_vars, mn_vars, ex_vars, fs, scan_reversed, cd_directories,
                   cd_compiled_filename, cd_compress, cd_next, cd_pdf_files, cd_run, cd_log>>

\* lines 390-393: the compiled document is written
CompileWrite ==
    /\ phase = "compile_directory"
    /\ cd_file > Len(cd_pdf_files)
    /\ fs' = WriteOut(fs, OutputPath, Pdf(cd_writer.pages, cd_writer.outline))
    /\ cd_log' = Append(cd_log, Outcome("written", cd_pdf_files,
                                        Pdf(cd_writer.pages, cd_writer.outline)))
    /\ cd_next' = cd_next + 1
    /\ phase' = "compile_directories"
    /\ UNCHANGED <<pp_vars, mn_vars, ex_vars, scan_reversed, cd_directories, cd_compiled_filename,
                   cd_compress, cd_pdf_files, cd_file, cd_writer, cd_run>>

\* line 333: the loop over the directories is over
CompileDirectoriesReturn ==
    /\ phase = "compile_directories"
    /\ cd_next > Len(cd_directories)
    /\ phase' = "compile_done"
    /\ UNCHANGED <<pp_vars, mn_vars, ex_vars, cd_vars>>

\* lines 151-156, 266-271: the program is run again with the same arguments
CompileAgain ==
    /\ phase = "compile_done"
    /\ cd_run < MaxRuns
    /\ cd_run' = cd_run + 1
    /\ cd_next' = 1
    /\ phase' = "compile_directories"
    /\ UNCHANGED <<pp_vars, mn_vars, ex_vars, fs, scan_reversed, cd_directories, cd_compiled_filename,
                   cd_compress, cd_pdf_files, cd_file, cd_writer, cd_log>>

NextCompile ==
    \/ CompileSkipNotDirectory
    \/ CompileNoPdfs
    \/ CompileBegin
    \/ CompileReadFails
    \/ CompileSkipEmptyFile
    \/ CompileAddFile
    \/ CompileWrite
    \/ CompileDirectoriesReturn
    \/ CompileAgain

SpecCompile == InitCompile /\ [][NextCompile]_vars

\* ------------------------------------------------------- C3, C4, C5, C10
PdfSuffix == <<".", "p", "d", "f">>

\* the output file of the call a log entry records
OutputOf(e) == [dir |-> Resolve(e.directory), name |-> cd_compiled_filename]

\* the PDF files below the directory of a logged call, other than its output file,
\* as they were when the call began
InputsOf(e) ==
    {f \in e.before : /\ IsPrefix(Resolve(e.directory), f.dir)
                      /\ EndsWith(f.name, PdfSuffix)
                      /\ PathOf(f) # OutputOf(e)}

PagesOf(e, path) == FileAt(e.before, path).pdf.pages

RECURSIVE PagesBefore(_, _, _)
PagesBefore(e, files, k) ==
    IF k <= 1 THEN 0 ELSE PagesBefore(e, files, k - 1) + Len(PagesOf(e, files[k - 1]))

\* the same page of the same song file, compressed or not
SamePage(p, q) == p.book = q.book /\ p.index = q.index

Written == {l \in 1..Len(cd_log) : cd_log[l].outcome = "written"}

\* C3: compile_directory takes the files in ascending order of their case-folded
\* base name; each file with pages adds all its pages in order and one outline
\* entry, labelled with the base name, whose destination is the number of pages
\* of the files before it; a file without pages adds neither.
C3_OutlinePointsAtFirstPages ==
    \A l \in Written :
        LET e == cd_log[l]
            files == e.pdf_files
            merged == SelectSeq(files, LAMBDA q : Len(PagesOf(e, q)) > 0)
            doc == e.written
        IN  /\ {files[i] : i \in 1..Len(files)} = {PathOf(f) : f \in InputsOf(e)}
            /\ Len(files) = Cardinality(InputsOf(e))
            /\ \A i, j \in 1..Len(files) :
                  i < j => ~StrLess(Casefold(Stem(files[j].name)), Casefold(Stem(files[i].name)))
            /\ Len(doc.outline) = Len(merged)
            /\ Len(doc.pages) = PagesBefore(e, merged, Len(merged) + 1)
            /\ \A k \in 1..Len(merged) :
                  LET dest == PagesBefore(e, merged, k)
                  IN  /\ doc.outline[k].title = Stem(merged[k].name)
                      /\ doc.outline[k].page = dest
                      /\ \A i \in 1..Len(PagesOf(e, merged[k])) :
                            /\ SamePage(doc.pages[dest + i], PagesOf(e, merged[k])[i])
                            /\ doc.pages[dest + i].compressed =
                                  (cd_compress \/ PagesOf(e, merged[k])[i].compressed)

\* "Ap" (1 page), "ap" (no page) and "Ze" (2 pages) were compiled: two outline
\* entries, the second one, "Ze", at destination 1
C3_Witness ==
    \E l \in Written :
        LET e == cd_log[l]
        IN  /\ \E i \in 1..Len(e.pdf_files) : Len(PagesOf(e, e.pdf_files[i])) = 0
            /\ Len(e.written.outline) = 2
            /\ e.written.outline[2] = [title |-> <<"Z", "e">>, page |-> 1]
            /\ Len(e.written.pages) = 3

Finished == {l \in 1..Len(cd_log) : cd_log[l].outcome \in {"written", "failed", "no_pdf_files"}}

\* C4: one unreadable file among the files of a directory does not stop the
\* others from being merged: their pages and outline entries are in the compiled
\* document and the document is written.
C4_UnreadableFileIsIsolated ==
    \A l \in Finished :
        LET e == cd_log[l]
            bad == {f \in InputsOf(e) : f.pdf.state = "corrupt"}
            good == {f \in InputsOf(e) : f.pdf.state = "ok" /\ Len(f.pdf.pages) > 0}
        IN  (Cardinality(bad) = 1 /\ good # {}) =>
                /\ e.outcome = "written"
                /\ \A f \in good :
                      /\ \E k \in 1..Len(e.written.outline) :
                            e.written.outline[k].title = Stem(f.name)
                      /\ \A i \in 1..Len(f.pdf.pages) :
                            \E k \in 1..Len(e.written.pages) :
                                SamePage(e.written.pages[k], f.pdf.pages[i])

\* C5: compile_directory run again on the same directory and output file, the
\* other files unchanged, leaves the earlier output out of the merge and writes
\* the same pages and the same outline.
C5_RecompileIsIdempotent ==
    \A i, j \in Finished :
        (/\ i < j
         /\ cd_log[i].directory = cd_log[j].directory
         /\ InputsOf(cd_log[i]) = InputsOf(cd_log[j]))
        => /\ cd_log[j].outcome = cd_log[i].outcome
           /\ cd_log[j].written = cd_log[i].written
           /\ \A k \in 1..Len(cd_log[j].pdf_files) : cd_log[j].pdf_files[k] # OutputOf(cd_log[j])

\* a directory was compiled a second time with its first output lying in it
C5_Witness ==
    \E i, j \in Written :
        /\ i < j
        /\ cd_log[i].directory = cd_log[j].directory
        /\ InputsOf(cd_log[i]) = InputsOf(cd_log[j])
        /\ Exists(cd_log[j].before, OutputOf(cd_log[j]))
        /\ FileAt(cd_log[j].before, OutputOf(cd_log[j])).pdf = cd_log[i].written
        /\ Len(cd_log[j].written.pages) >= 2

\* cd_directories is what main passes: distinct directories that extraction has
\* made, in sorted order
FullBatchRun ==
    /\ \A i \in 1..Len(cd_directories) : IsDir(Resolve(cd_directories[i]))
    /\ \A i, j \in 1..Len(cd_directories) :
          i < j => PathLess(cd_directories[i], cd_directories[j])

\* C10: over repeated full-batch runs no compiled document of an earlier run or
\* step is merged into a new one, wherever the recorded directories lie, so each
\* directory's compiled pages are the same after the second run as after the first.
C10_NoCompiledDocumentIsMerged ==
    FullBatchRun =>
        /\ \A l \in Written :
              \A k \in 1..Len(cd_log[l].pdf_files) :
                  cd_log[l].pdf_files[k].name # cd_compiled_filename
        /\ \A i, j \in Written :
              (i < j /\ cd_log[i].directory = cd_log[j].directory)
              => cd_log[j].written.pages = cd_log[i].written.pages

\* ------------------------------------------------------- _parse_song_definition
\* A song_data value: a mapping with its items in order, or something else.
SongData(items) == [kind |-> "dict", items |-> items]
NotAMapping == [kind |-> "other", items |-> <<>>]
Item(name, page_spec) == [name |-> name, page_spec |-> page_spec]

Built(song) == [ok |-> TRUE, song |-> song, err |-> "none"]
Rejected(err) == [ok |-> FALSE, song |-> SongDefinition(<<>>, <<>>), err |-> err]

\* lines 83-98
_parse_song_definition(song_data, offset) ==
    IF song_data.kind # "dict" THEN Rejected("TypeError")
    ELSE IF Len(song_data.items) # 1 THEN Rejected("ValueError")
    ELSE LET name == song_data.items[1].name
             parsed == _parse_pages(song_data.items[1].page_spec, offset)
         IN  IF Strip(name) = <<>> THEN Rejected("ValueError")
             ELSE IF ~parsed.ok THEN Rejected(parsed.err)
             ELSE IF parsed.pages = <<>> THEN Rejected("ValueError")
             ELSE Built(SongDefinition(Strip(name), parsed.pages))

\* lines 231-243: the songs of an entry that validate, in order
SongDefinitionsOf(songs_data, offset) ==
    LET built == [i \in 1..Len(songs_data) |-> _parse_song_definition(songs_data[i], offset)]
        valid == SelectSeq(built, LAMBDA b : b.ok)
    IN  [i \in 1..Len(valid) |-> valid[i].song]

\* ------------------------------------------------------- main: one entry
\* The source PDFs on disk, by the name the configuration gives them.
SourceAt(file) ==
    CASE file = "book.pdf" -> ReadablePdf(MaxTotalPages)
      [] file = "corrupt.pdf" -> CorruptPdf
      [] OTHER -> MissingPdf

\* a directory in which no file can be created
ReadOnlyDir == <<<<"r", "o">>>>

AbsentKey == [kind |-> "absent", n |-> 0, s |-> <<>>, items |-> <<>>]

\* lines 208-216: int(real_book_config.get("offset", 0))
OffsetOf(raw) ==
    CASE raw.kind = "absent" -> [ok |-> TRUE, v |-> 0]
      [] raw.kind = "int" -> [ok |-> TRUE, v |-> raw.n]
      [] raw.kind = "str" -> PyInt(raw.s)
      [] OTHER -> [ok |-> FALSE, v |-> 0]

\* line 218: real_book_config.get("output_directory", "output_songs")
DefaultOutputDirectory == <<<<"o", "u", "t", "p", "u", "t", "_", "s", "o", "n", "g", "s">>>>

OutputDirectoryOf(entry) ==
    IF "output_directory" \in entry.keys THEN PyPath(entry.output_directory)
    ELSE PyPath(DefaultOutputDirectory)

FilesIn(files, dir) ==
    LET at == {i \in 1..Len(files) : files[i].dir = dir}
    IN  IF at = {} THEN <<>> ELSE files[CHOOSE i \in at : TRUE].files

PutFiles(files, dir, list) ==
    Append(SelectSeq(files, LAMBDA d : d.dir # dir), [dir |-> dir, files |-> list])

\* lines 118-145 for a whole list of songs: the files of output_dir afterwards,
\* and the exception that ended the loop, if any
RECURSIVE ExtractSongs(_, _, _, _, _)
ExtractSongs(source, songs, abbreviation, files, writable) ==
    IF songs = <<>> THEN [raised |-> "none", files |-> files]
    ELSE IF HasInvalidPage(Head(songs), TotalPages(source))
    THEN ExtractSongs(source, Tail(songs), abbreviation, files, writable)
    ELSE IF ~writable THEN [raised |-> "PermissionError", files |-> files]
    ELSE ExtractSongs(source, Tail(songs), abbreviation,
                      WriteFile(files, OutputFilename(Head(songs).name, abbreviation),
                                WriterPages(source, Head(songs).pages)),
                      writable)

\* lines 101-145: what a call of extract_songs_from_pdf raises, the directory it
\* makes and the files it leaves
extract_songs_from_pdf(source, songs, output_dir, abbreviation, files) ==
    IF source.state = "missing"
    THEN [raised |-> "FileNotFoundError", made |-> {}, files |-> files]
    ELSE IF source.state = "corrupt"
    THEN [raised |-> "PdfReadError", made |-> {output_dir}, files |-> files]
    ELSE LET run == ExtractSongs(source, songs, abbreviation, FilesIn(files, output_dir),
                                 output_dir # ReadOnlyDir)
         IN  [raised |-> run.raised, made |-> {output_dir},
              files |-> PutFiles(files, output_dir, run.files)]

Skipped(why) == [outcome |-> why, made |-> {}, files |-> mn_files, records |-> FALSE,
                 crashed |-> FALSE]

AfterExtraction_RecordsMissing(call) ==
    IF call.raised = "FileNotFoundError"
    THEN [outcome |-> "source_not_found", made |-> call.made, files |-> call.files,
          records |-> TRUE, crashed |-> FALSE]
    ELSE IF call.raised # "none"
    THEN [outcome |-> call.raised, made |-> call.made, files |-> call.files,
          records |-> FALSE, crashed |-> TRUE]
    ELSE [outcome |-> "extracted", made |-> call.made, files |-> call.files,
          records |-> TRUE, crashed |-> FALSE]

\* lines 253-264: FileNotFoundError is logged and the entry left; any other
\* exception is not caught; after a call that returns the directory is recorded
AfterExtraction(call) ==
    IF call.raised = "FileNotFoundError"
    THEN [outcome |-> "source_not_found", made |-> call.made, files |-> call.files,
          records |-> FALSE, crashed |-> FALSE]
    ELSE IF call.raised # "none"
    THEN [outcome |-> call.raised, made |-> call.made, files |-> call.files,
          records |-> FALSE, crashed |-> TRUE]
    ELSE [outcome |-> "extracted", made |-> call.made, files |-> call.files,
          records |-> TRUE, crashed |-> FALSE]

\* lines 245-264: an entry without a valid song is left, the others are extracted
ExtractEntry(entry, song_definitions) ==
    IF song_definitions = <<>> THEN Skipped("no_valid_songs")
    ELSE CHOOSE done \in {AfterExtraction(call) :
                              call \in {extract_songs_from_pdf(SourceAt(entry.file),
                                                               song_definitions,
                                                               OutputDirectoryOf(entry),
                                                               Strip(entry.abbreviation),
                                                               mn_files)}} :
             TRUE

\* lines 169-264: the body of the loop over the configuration entries
ProcessEntry(entry) ==
    IF ~entry.mapping THEN Skipped("not_a_mapping")
    ELSE IF ~({"file", "songs"} \subseteq entry.keys) THEN Skipped("missing_key")
    ELSE IF entry.file = "None" THEN Skipped("invalid_path")
    ELSE IF entry.songs.kind # "list" THEN Skipped("songs_not_a_list")
    ELSE IF ~OffsetOf(entry.offset).ok THEN Skipped("offset_not_an_integer")
    ELSE CHOOSE done \in {ExtractEntry(entry, song_definitions) :
                              song_definitions \in {SongDefinitionsOf(entry.songs.items,
                                                                      OffsetOf(entry.offset).v)}} :
             TRUE

\* line 268: sorted(output_directories)
RECURSIVE SortedPaths(_)
SortedPaths(paths) ==
    IF paths = {} THEN <<>>
    ELSE LET least == CHOOSE d \in paths : \A e \in paths : ~PathLess(e, d)
         IN  <<least>> \o SortedPaths(paths \ {least})

\* ------------------------------------------------------- inputs of main
Entry(keys, file, songs_data, offset, output_directory, abbreviation) ==
    [mapping |-> TRUE, keys |-> keys, file |-> file,
     songs |-> [kind |-> "list", items |-> songs_data],
     offset |-> offset, output_directory |-> output_directory, abbreviation |-> abbreviation]

AllKeys == {"file", "songs", "offset", "output_directory", "abbreviation"}

\* songs: "A" on pages 1, 1-2; "B" on a page past the end; and malformed ones
SongA == SongData(<<Item(<<" ", "A">>, ListSpec(<<IntSpec(1), StrSpec(RangeString(1, MaxTotalPages))>>))>>)
SongPastEnd == SongData(<<Item(<<"B">>, IntSpec(MaxTotalPages + 1))>>)
SongDescending == SongData(<<Item(<<"B">>, StrSpec(RangeString(2, 1)))>>)
SongBlankName == SongData(<<Item(<<" ">>, IntSpec(1))>>)
SongTwoNames == SongData(<<Item(<<"A">>, IntSpec(1)), Item(<<"B">>, IntSpec(1))>>)
SongNoPages == SongData(<<Item(<<"A">>, ListSpec(<<>>))>>)

ConfigEntries ==
    {Entry(AllKeys, "book.pdf", <<SongA, SongDescending, NotAMapping>>, IntSpec(0),
           <<<<".">>>> \o Out, <<"R", "B", " ">>),
     Entry({"file", "songs"}, "book.pdf", <<SongA>>, AbsentKey, Out, <<>>),
     Entry(AllKeys, "book.pdf", <<SongA>>, StrSpec(<<"0">>), Out, <<>>),
     Entry(AllKeys, "book.pdf", <<SongPastEnd>>, IntSpec(1), Sub, <<>>),
     Entry(AllKeys, "book.pdf", <<SongBlankName, SongTwoNames, SongNoPages>>, IntSpec(0), Out, <<>>),
     [Entry({}, "None", <<>>, AbsentKey, Out, <<>>) EXCEPT !.mapping = FALSE],
     Entry({"file"}, "book.pdf", <<>>, AbsentKey, Out, <<>>),
     [Entry(AllKeys, "book.pdf", <<>>, IntSpec(0), Out, <<>>) EXCEPT !.songs.kind = "other"],
     Entry(AllKeys, "book.pdf", <<SongA>>, StrSpec(<<"x">>), Out, <<>>),
     Entry(AllKeys, "None", <<SongA>>, IntSpec(0), Out, <<>>),
     Entry(AllKeys, "missing.pdf", <<SongA>>, IntSpec(0), Sub, <<>>),
     Entry(AllKeys, "corrupt.pdf", <<SongA>>, IntSpec(0), Out, <<>>),
     Entry(AllKeys, "book.pdf", <<SongA>>, IntSpec(0), ReadOnlyDir, <<>>)}

InitMain ==
    /\ phase = "main_start"
    /\ \/ /\ mn_args \in [compile_directory : {<<>>}, compile_from_config : BOOLEAN]
          /\ mn_config \in {[loaded |-> FALSE, entries |-> <<>>]}
                           \cup [loaded : {TRUE}, entries : SeqsUpTo(ConfigEntries, MaxEntries)]
       \/ /\ mn_args \in [compile_directory : {<<Gone, Out>>}, compile_from_config : BOOLEAN]
          /\ mn_config = [loaded |-> FALSE, entries |-> <<>>]
    /\ mn_index = 1
    /\ mn_output_directories = {}
    /\ mn_dirs = {ReadOnlyDir}
    /\ mn_files = <<>>
    /\ mn_log = <<>>
    /\ mn_compile_calls = <<>>
    /\ mn_summary = FALSE
    /\ IdlePages
    /\ IdleExtract
    /\ IdleCompile

\* ------------------------------------------------------- main
\* lines 151-157: --compile-directory compiles the named directories and returns
MainCompileOnly ==
    /\ phase = "main_start"
    /\ mn_args.compile_directory # <<>>
    /\ mn_compile_calls' = Append(mn_compile_calls,
                                  [line |-> 152, directories |-> mn_args.compile_directory])
    /\ phase' = "main_returned"
    /\ UNCHANGED <<pp_vars, ex_vars, cd_vars, mn_args, mn_config, mn_index,
                   mn_output_directories, mn_dirs, mn_files, mn_log, mn_summary>>

\* lines 161-165: read_config raises, the run exits with status 1
MainConfigFails ==
    /\ phase = "main_start"
    /\ mn_args.compile_directory = <<>>
    /\ ~mn_config.loaded
    /\ phase' = "main_exit_1"
    /\ UNCHANGED <<pp_vars, ex_vars, cd_vars, mn_vars>>

\* lines 159-167: the configuration is loaded
MainConfigLoaded ==
    /\ phase = "main_start"
    /\ mn_args.compile_directory = <<>>
    /\ mn_config.loaded
    /\ phase' = "main_loop"
    /\ UNCHANGED <<pp_vars, ex_vars, cd_vars, mn_vars>>

\* lines 169-264: one entry is processed and the loop goes on
MainEntry ==
    /\ phase = "main_loop"
    /\ mn_index <= Len(mn_config.entries)
    /\ \E done \in {ProcessEntry(mn_config.entries[mn_index])} :
           /\ ~done.crashed
           /\ mn_log' = Append(mn_log, [index |-> mn_index, outcome |-> done.outcome])
           /\ mn_files' = done.files
           /\ mn_dirs' = mn_dirs \cup done.made
           /\ mn_output_directories' =
                 IF done.records
                 THEN mn_output_directories \cup {OutputDirectoryOf(mn_config.entries[mn_index])}
                 ELSE mn_output_directories
    /\ mn_index' = mn_index + 1
    /\ UNCHANGED <<phase, pp_vars, ex_vars, cd_vars, mn_args, mn_config, mn_compile_calls,
                   mn_summary>>

\* lines 253-262: extract_songs_from_pdf raises something other than
\* FileNotFoundError; nothing in main catches it and the run ends
MainEntryRaises ==
    /\ phase = "main_loop"
    /\ mn_index <= Len(mn_config.entries)
    /\ \E done \in {ProcessEntry(mn_config.entries[mn_index])} :
           /\ done.crashed
           /\ mn_log' = Append(mn_log, [index |-> mn_index, outcome |-> done.outcome])
           /\ mn_files' = done.files
           /\ mn_dirs' = mn_dirs \cup done.made
    /\ phase' = "main_crashed"
    /\ UNCHANGED <<pp_vars, ex_vars, cd_vars, mn_args, mn_config, mn_index,
                   mn_output_directories, mn_compile_calls, mn_summary>>

\* lines 266-271: the recorded directories are compiled, in sorted order
MainCompile ==
    /\ phase = "main_loop"
    /\ mn_index > Len(mn_config.entries)
    /\ mn_args.compile_from_config /\ mn_output_directories # {}
    /\ mn_compile_calls' = Append(mn_compile_calls,
                                  [line |-> 267, directories |-> SortedPaths(mn_output_directories)])
    /\ phase' = "main_summary"
    /\ UNCHANGED <<pp_vars, ex_vars, cd_vars, mn_args, mn_config, mn_index,
                   mn_output_directories, mn_dirs, mn_files, mn_log, mn_summary>>

\* line 266: nothing to compile
MainNoCompile ==
    /\ phase = "main_loop"
    /\ mn_index > Len(mn_config.entries)
    /\ ~(mn_args.compile_from_config /\ mn_output_directories # {})
    /\ phase' = "main_summary"
    /\ UNCHANGED <<pp_vars, ex_vars, cd_vars, mn_vars>>

\* line 273: the elapsed time is logged
MainSummary ==
    /\ phase = "main_summary"
    /\ mn_summary' = TRUE
    /\ phase' = "main_done"
    /\ UNCHANGED <<pp_vars, ex_vars, cd_vars, mn_args, mn_config, mn_index,
                   mn_output_directories, mn_dirs, mn_files, mn_log, mn_compile_calls>>

NextMain ==
    \/ MainCompileOnly
    \/ MainConfigFails
    \/ MainConfigLoaded
    \/ MainEntry
    \/ MainEntryRaises
    \/ MainCompile
    \/ MainNoCompile
    \/ MainSummary

SpecMain == InitMain /\ [][NextMain]_vars

\* ------------------------------------------------------- C6, C9
RunEnded == phase \in {"main_done", "main_crashed", "main_exit_1", "main_returned"}

\* C6: once the configuration has loaded, the run attempts every entry in file
\* order and emits the final elapsed-time summary, whatever fails inside an entry.
C6_EveryEntryThenSummary ==
    (RunEnded /\ mn_args.compile_directory = <<>> /\ mn_config.loaded)
    => /\ mn_summary
       /\ Len(mn_log) = Len(mn_config.entries)
       /\ \A i \in 1..Len(mn_log) : mn_log[i].index = i

\* the entries whose output directory main records: well-formed, with a song that
\* validates, and a source that is there
Records(entry) ==
    /\ entry.mapping
    /\ {"file", "songs"} \subseteq entry.keys
    /\ entry.file \notin {"None", "missing.pdf"}
    /\ entry.songs.kind = "list"
    /\ OffsetOf(entry.offset).ok
    /\ \E i \in 1..Len(entry.songs.items) :
          _parse_song_definition(entry.songs.items[i], OffsetOf(entry.offset).v).ok

ConfigCalls == SelectSeq(mn_compile_calls, LAMBDA c : c.line = 267)

====
